---------------------------- MODULE Spec2Model ----------------------------
(***************************************************************************)
(* Model of the ChatKit session-creation route (create-session/route.ts):  *)
(* the anonymous-session identity resolver (resolveUserId, getCookieValue, *)
(* serializeSessionCookie), the response builder and the POST handler      *)
(* around them, together with a browser that stores the emitted cookie.    *)
(*                                                                         *)
(* Strings are sequences of symbols.  A symbol is one character, except    *)
(* that the 18 characters of the cookie name, a percent-escape and the     *)
(* attribute words of the Set-Cookie directive are each one symbol: the    *)
(* code never looks inside them (it splits on ";" and "=", trims white     *)
(* space and compares whole names).                                        *)
(* A value of type `string | null` is <<>> for null and <<s>> for the      *)
(* string s.                                                               *)
(***************************************************************************)
EXTENDS Integers, Sequences, FiniteSets, TLC

VARIABLES
    NODE_ENV,        \* process.env.NODE_ENV: Null (unset) or Some(word)
    hasRandomUUID,   \* typeof crypto.randomUUID === "function"
    OPENAI_API_KEY,  \* process.env.OPENAI_API_KEY: Null (unset) or Some(word)
    WORKFLOW_ID,     \* the configured default workflow id, "" when not configured
    pc,              \* position of the request in the handler
    cookieHeader,    \* request.headers.get("cookie"): Null or Some(string)
    body,            \* the parsed request body
    userId,          \* POST's userId: Null until resolveUserId returned
    sessionCookie,   \* POST's sessionCookie (line 30): Null or Some(string)
    upstream,        \* the calls made to the session broker for this request
    response,        \* the Response returned: Null or Some(record)
    jar,             \* the browser's stored session cookie pair: Null or Some(string)
    minted,          \* the userId returned with the cookie now in the jar
    inflight         \* the concurrent invocations of POST, each with its own locals

env == <<NODE_ENV, hasRandomUUID, OPENAI_API_KEY, WORKFLOW_ID>>
req == <<cookieHeader, body>>
browser == <<jar, minted>>
vars == <<env, pc, req, userId, sessionCookie, upstream, response, browser, inflight>>

-----------------------------------------------------------------------------
(* Bounds of the model *)

\* longest Cookie header the resolver is applied to, in symbols
MaxLen == 6

\* how many invocations of POST run at the same time
MaxInFlight == 2

-----------------------------------------------------------------------------
(* string | null *)

Null == <<>>
Some(s) == <<s>>

-----------------------------------------------------------------------------
(* Program constants *)

SESSION_COOKIE_NAME == <<"chatkit_session_id">>

SESSION_COOKIE_MAX_AGE == 60 * 60 * 24 * 30

-----------------------------------------------------------------------------
(* String primitives of the JavaScript runtime, as the code uses them *)

WhiteSpace == {" "}

\* The symbols encodeURIComponent leaves alone: letters, digits, - _ . ! ~ * ' ( )
Unreserved ==
    {"0", "1", "2", "3", "4", "5", "6", "7", "8", "9",
     "a", "b", "c", "d", "e", "f", "i", "r", "z", "-", ".", "_",
     "chatkit_session_id"}

RECURSIVE IndexOf(_, _, _)
\* s.indexOf(c) from position i on; 0 when c does not occur
IndexOf(s, c, i) ==
    IF i > Len(s) THEN 0
    ELSE IF s[i] = c THEN i
    ELSE IndexOf(s, c, i + 1)

RECURSIVE Split(_, _)
\* s.split(sep) for a one-character separator: "".split(";") is [""]
Split(s, sep) ==
    LET i == IndexOf(s, sep, 1)
    IN  IF i = 0 THEN <<s>>
        ELSE <<SubSeq(s, 1, i - 1)>> \o Split(SubSeq(s, i + 1, Len(s)), sep)

RECURSIVE Join(_, _)
\* parts.join(sep)
Join(parts, sep) ==
    IF Len(parts) = 0 THEN <<>>
    ELSE IF Len(parts) = 1 THEN parts[1]
    ELSE parts[1] \o sep \o Join(Tail(parts), sep)

RECURSIVE TrimStart(_)
TrimStart(s) ==
    IF Len(s) > 0 /\ s[1] \in WhiteSpace THEN TrimStart(Tail(s)) ELSE s

RECURSIVE TrimEnd(_)
TrimEnd(s) ==
    IF Len(s) > 0 /\ s[Len(s)] \in WhiteSpace
    THEN TrimEnd(SubSeq(s, 1, Len(s) - 1))
    ELSE s

\* s.trim()
Trim(s) == TrimEnd(TrimStart(s))

\* what encodeURIComponent writes for one symbol
EncodeSymbol(c) ==
    IF c \in Unreserved THEN <<c>>
    ELSE IF c = ";" THEN <<"%3B">>
    ELSE IF c = "=" THEN <<"%3D">>
    ELSE IF c = " " THEN <<"%20">>
    ELSE <<"%25", "3", "B">>                      \* "%3B" is written "%253B"

RECURSIVE encodeURIComponent(_)
encodeURIComponent(s) ==
    IF Len(s) = 0 THEN <<>>
    ELSE EncodeSymbol(s[1]) \o encodeURIComponent(Tail(s))

-----------------------------------------------------------------------------
(* The resolver *)

RECURSIVE ScanCookiesLastWins(_, _, _)
\* ScanCookies as it would be if a later pair of the same name overrode an
\* earlier one
ScanCookiesLastWins(cookies, i, name) ==
    IF i > Len(cookies) THEN Null
    ELSE LET parts   == Split(cookies[i], "=")
             rawName == parts[1]
             rest    == Tail(parts)
             later   == ScanCookiesLastWins(cookies, i + 1, name)
         IN  IF later # Null THEN later
             ELSE IF rawName = <<>> \/ Len(rest) = 0 THEN Null
             ELSE IF Trim(rawName) = name
             THEN Some(Trim(Join(rest, <<"=">>)))
             ELSE Null

RECURSIVE ScanCookiesSecondPartOnly(_, _, _)
\* ScanCookies as it would be with `const [rawName, value] = cookie.split("=")`
ScanCookiesSecondPartOnly(cookies, i, name) ==
    IF i > Len(cookies) THEN Null
    ELSE LET parts   == Split(cookies[i], "=")
             rawName == parts[1]
             rest    == Tail(parts)
         IN  IF rawName = <<>> \/ Len(rest) = 0
             THEN ScanCookiesSecondPartOnly(cookies, i + 1, name)
             ELSE IF Trim(rawName) = name
             THEN Some(Trim(rest[1]))
             ELSE ScanCookiesSecondPartOnly(cookies, i + 1, name)

RECURSIVE ScanCookiesStopAtMalformed(_, _, _)
\* ScanCookies as it would be with `break` for `continue`
ScanCookiesStopAtMalformed(cookies, i, name) ==
    IF i > Len(cookies) THEN Null
    ELSE LET parts   == Split(cookies[i], "=")
             rawName == parts[1]
             rest    == Tail(parts)
         IN  IF rawName = <<>> \/ Len(rest) = 0
             THEN Null
             ELSE IF Trim(rawName) = name
             THEN Some(Trim(Join(rest, <<"=">>)))
             ELSE ScanCookiesStopAtMalformed(cookies, i + 1, name)

RECURSIVE ScanCookies(_, _, _)
\* the for loop of getCookieValue over cookies[i..]
ScanCookies(cookies, i, name) ==
    IF i > Len(cookies) THEN Null
    ELSE LET parts   == Split(cookies[i], "=")
             rawName == parts[1]
             rest    == Tail(parts)
         IN  IF rawName = <<>> \/ Len(rest) = 0
             THEN ScanCookies(cookies, i + 1, name)
             ELSE IF Trim(rawName) = name
             THEN Some(Trim(Join(rest, <<"=">>)))
             ELSE ScanCookies(cookies, i + 1, name)

getCookieValue(header, name) ==
    IF header = Null \/ header = Some(<<>>) THEN Null
    ELSE ScanCookies(Split(header[1], ";"), 1, name)

\* serializeSessionCookie as it would be with Max-Age pushed before Path
serializeSessionCookieMaxAgeFirst(value) ==
    LET attributes ==
            << SESSION_COOKIE_NAME \o <<"=">> \o encodeURIComponent(value),
               <<"Max-Age", "=", ToString(SESSION_COOKIE_MAX_AGE)>>,
               <<"Path", "=", "/">>,
               <<"HttpOnly">>,
               <<"SameSite", "=", "Lax">> >>
        pushed ==
            IF NODE_ENV = Some("production")
            THEN Append(attributes, <<"Secure">>)
            ELSE attributes
    IN  Join(pushed, <<";", " ">>)

\* serializeSessionCookie as it would be with `NODE_ENV !== "development"`
serializeSessionCookieSecureUnlessDevelopment(value) ==
    LET attributes ==
            << SESSION_COOKIE_NAME \o <<"=">> \o encodeURIComponent(value),
               <<"Path", "=", "/">>,
               <<"Max-Age", "=", ToString(SESSION_COOKIE_MAX_AGE)>>,
               <<"HttpOnly">>,
               <<"SameSite", "=", "Lax">> >>
        pushed ==
            IF NODE_ENV # Some("development")
            THEN Append(attributes, <<"Secure">>)
            ELSE attributes
    IN  Join(pushed, <<";", " ">>)

serializeSessionCookie(value) ==
    LET attributes ==
            << SESSION_COOKIE_NAME \o <<"=">> \o encodeURIComponent(value),
               <<"Path", "=", "/">>,
               <<"Max-Age", "=", ToString(SESSION_COOKIE_MAX_AGE)>>,
               <<"HttpOnly">>,
               <<"SameSite", "=", "Lax">> >>
        pushed ==
            IF NODE_ENV = Some("production")
            THEN Append(attributes, <<"Secure">>)
            ELSE attributes
    IN  Join(pushed, <<";", " ">>)

\* crypto.randomUUID(): hexadecimal digits and "-"
RandomUUIDs == { <<"4", "-", "a">>, <<"b", "-", "7">> }

\* Math.random().toString(36): 0 is "0", 0.5 is "0.i", 0.25 is "0.9"
MathRandomToString36 == { <<"0">>, <<"0", ".", "i">>, <<"0", ".", "9">> }

\* s.slice(2)
Slice2(s) == SubSeq(s, 3, Len(s))

\* what a call of resolveUserId can draw: of the two generators (lines 212-215)
\* only the one the runtime selects is called, the other yields nothing
UUIDDraws == IF hasRandomUUID THEN RandomUUIDs ELSE { <<>> }

MathRandomDraws == IF hasRandomUUID THEN { <<>> } ELSE MathRandomToString36

\* resolveUserId as it would be if it serialized a cookie on both branches
resolveUserIdAlwaysCookie(header, uuid, rnd) ==
    LET existing == getCookieValue(header, SESSION_COOKIE_NAME)
    IN  IF existing # Null /\ existing[1] # <<>>
        THEN [userId |-> existing[1],
              sessionCookie |-> Some(serializeSessionCookie(existing[1]))]
        ELSE LET generated == IF hasRandomUUID THEN uuid ELSE Slice2(rnd)
             IN  [userId |-> generated,
                  sessionCookie |-> Some(serializeSessionCookie(generated))]

resolveUserId(header, uuid, rnd) ==
    LET existing == getCookieValue(header, SESSION_COOKIE_NAME)
    IN  IF existing # Null /\ existing[1] # <<>>
        THEN [userId |-> existing[1], sessionCookie |-> Null]
        ELSE LET generated == IF hasRandomUUID THEN uuid ELSE Slice2(rnd)
             IN  [userId |-> generated,
                  sessionCookie |-> Some(serializeSessionCookie(generated))]


-----------------------------------------------------------------------------
(* The response builder and the two halves of POST, cut at `await fetch` *)

\* a Response may not have a body with these statuses: the constructor throws
NullBodyStatus == {101, 103, 204, 205, 304}

Threw == [threw |-> TRUE]

\* buildJsonResponse(payload, status, headers, sessionCookie): headers is always
\* the JSON content type; "Set-Cookie" is appended when sessionCookie is truthy
buildJsonResponse(payload, status, cookie) ==
    IF status \in NullBodyStatus
    THEN Threw
    ELSE [threw     |-> FALSE,
          status    |-> status,
          payload   |-> payload,
          setCookie |-> IF cookie # Null /\ cookie[1] # <<>> THEN cookie ELSE Null]

\* the catch block as it would be if sessionCookie were declared inside `try`
CatchBlockWithoutCookie(cookie) ==
    buildJsonResponse("Unexpected error", 500, Null)

\* the catch block of POST (lines 178-186), with sessionCookie as it then is
CatchBlock(cookie) ==
    buildJsonResponse("Unexpected error", 500, cookie)

\* parsedBody?.workflow?.id ?? parsedBody?.workflowId ?? WORKFLOW_ID
ResolvedWorkflowId(b) ==
    IF b.workflow_id # Null THEN b.workflow_id[1]
    ELSE IF b.workflowId # Null THEN b.workflowId[1]
    ELSE WORKFLOW_ID

-----------------------------------------------------------------------------
(* Inputs *)

HeaderAlphabet == {"chatkit_session_id", ";", "=", " ", "%3B"}

\* every string of at most MaxLen symbols
Headers == UNION { [1..n -> HeaderAlphabet] : n \in 0..MaxLen }

NodeEnvs == { Null, Some("production"), Some("development") }

ApiKeys == { Null, Some("sk-key") }

WorkflowIds == { "", "wf_config" }

Bodies ==
    [workflow_id : {Null, Some(""), Some("wf_body")},
     workflowId  : {Null, Some("wf_alt")}]

NoBody == [workflow_id |-> Null, workflowId |-> Null]

\* what the session broker answers: a status, or 0 for a network error, on
\* which fetch rejects
UpstreamOutcomes == {0, 200, 304, 401}

\* the cookies of other applications the browser holds for the site
OtherCookies == { <<>>, <<"a", "=", "a">> }

\* the invocations of POST that can be running at once
Invocations == 1..MaxInFlight

\* an invocation that has not started: the locals of POST before line 26
IdleInvocation ==
    [pc |-> "idle", cookieHeader |-> Null, body |-> NoBody, drawn |-> Null,
     userId |-> Null, sessionCookie |-> Null, upstream |-> <<>>, response |-> Null]

InitEnv ==
    /\ NODE_ENV \in NodeEnvs
    /\ hasRandomUUID \in BOOLEAN

InitRequest ==
    /\ body = NoBody
    /\ userId = Null
    /\ sessionCookie = Null
    /\ upstream = <<>>
    /\ response = Null
    /\ jar = Null
    /\ minted = Null
    /\ inflight = [r \in Invocations |-> IdleInvocation]

-----------------------------------------------------------------------------
(* The resolver applied to every header *)

InitResolver ==
    /\ cookieHeader \in {Null} \cup { Some(h) : h \in Headers }
    /\ InitEnv
    /\ OPENAI_API_KEY = Some("sk-key")
    /\ WORKFLOW_ID = "wf_config"
    /\ pc = "call"
    /\ InitRequest

CallResolveUserId ==
    /\ pc = "call"
    /\ \E uuid \in UUIDDraws, rnd \in MathRandomDraws :
           LET r == resolveUserId(cookieHeader, uuid, rnd)
           IN  /\ userId' = Some(r.userId)
               /\ sessionCookie' = r.sessionCookie
    /\ pc' = "returned"
    /\ UNCHANGED <<env, req, upstream, response, browser, inflight>>

NextResolver == CallResolveUserId

SpecResolver == InitResolver /\ [][NextResolver]_vars

-----------------------------------------------------------------------------
(* The session-creation endpoint and a browser *)

Init ==
    /\ InitEnv
    /\ OPENAI_API_KEY \in ApiKeys
    /\ WORKFLOW_ID \in WorkflowIds
    /\ pc = "idle"
    /\ cookieHeader = Null
    /\ InitRequest

\* the Cookie header a browser sends: its cookies joined by "; ", none when it has none
BrowserCookieHeader(other) ==
    IF jar = Null
    THEN IF other = <<>> THEN Null ELSE Some(other)
    ELSE IF other = <<>> THEN jar ELSE Some(Join(<<other, jar[1]>>, <<";", " ">>))

\* the browser posts to the endpoint
Send ==
    /\ pc = "idle"
    /\ \E other \in OtherCookies : cookieHeader' = BrowserCookieHeader(other)
    /\ body' \in Bodies
    /\ userId' = Null
    /\ sessionCookie' = Null
    /\ upstream' = <<>>
    /\ response' = Null
    /\ pc' = "received"
    /\ UNCHANGED <<env, browser, inflight>>

\* POST, lines 26-132: up to the return of line 34 or 88, or to the fetch
POST ==
    /\ pc = "received"
    /\ IF OPENAI_API_KEY = Null
       THEN /\ response' = Some([threw |-> FALSE, status |-> 500,
                                 payload |-> "Missing OPENAI_API_KEY environment variable",
                                 setCookie |-> Null])
            /\ pc' = "done"
            /\ UNCHANGED <<userId, sessionCookie, upstream>>
       ELSE \E uuid \in UUIDDraws, rnd \in MathRandomDraws :
              LET r == resolveUserId(cookieHeader, uuid, rnd)
                  resolvedWorkflowId == ResolvedWorkflowId(body)
              IN  /\ userId' = Some(r.userId)
                  /\ sessionCookie' = r.sessionCookie
                  /\ IF resolvedWorkflowId = ""
                     THEN /\ response' = Some(buildJsonResponse(
                                  "Missing workflow id", 400, r.sessionCookie))
                          /\ pc' = "done"
                          /\ UNCHANGED upstream
                     ELSE /\ upstream' = Append(upstream,
                                  [workflow |-> resolvedWorkflowId, user |-> r.userId,
                                   answer |-> Null])
                          /\ pc' = "fetching"
                          /\ UNCHANGED response
    /\ UNCHANGED <<env, req, browser, inflight>>

\* POST, lines 134-186: from the settled fetch to the returned response
POSTAfterFetch ==
    /\ pc = "fetching"
    /\ \E outcome \in UpstreamOutcomes :
         LET built ==
                 IF outcome = 0 THEN Threw
                 ELSE IF outcome \in 200..299
                 THEN buildJsonResponse("client_secret", 200, sessionCookie)
                 ELSE buildJsonResponse("upstream error", outcome, sessionCookie)
         IN  /\ response' = Some(IF built.threw THEN CatchBlock(sessionCookie) ELSE built)
             /\ upstream' = [upstream EXCEPT ![Len(upstream)].answer = Some(outcome)]
    /\ pc' = "done"
    /\ UNCHANGED <<env, req, userId, sessionCookie, browser, inflight>>

\* the name=value pair of a Set-Cookie directive, as a browser stores it
CookiePair(directive) == Trim(Split(directive, ";")[1])

\* the browser takes the response and stores the cookie it is asked to store
Receive ==
    /\ pc = "done"
    /\ IF response[1].setCookie # Null
       THEN /\ jar' = Some(CookiePair(response[1].setCookie[1]))
            /\ minted' = userId
       ELSE UNCHANGED browser
    /\ pc' = "idle"
    /\ UNCHANGED <<env, req, userId, sessionCookie, upstream, response, inflight>>

\* the stored cookie reaches its Max-Age
Expire ==
    /\ pc = "idle"
    /\ jar # Null
    /\ jar' = Null
    /\ minted' = Null
    /\ UNCHANGED <<env, pc, req, userId, sessionCookie, upstream, response, inflight>>

Next == Send \/ POST \/ POSTAfterFetch \/ Receive \/ Expire

Spec == Init /\ [][Next]_vars

-----------------------------------------------------------------------------
(* Concurrent invocations of the endpoint: every invocation of POST has its *)
(* own request and its own locals (lines 30-78); the module declares no     *)
(* variable of its own, only constants (lines 17-19)                        *)

\* the Cookie headers of the clients that post at the same time
ClientHeaders ==
    { Null,
      Some(<<"chatkit_session_id", "=", "a">>),
      Some(<<"a", "=", "a", ";", " ", "chatkit_session_id", "=", "b">>) }

ClientBodies ==
    { NoBody, [workflow_id |-> Some("wf_body"), workflowId |-> Null] }

InitConcurrent ==
    /\ InitEnv
    /\ OPENAI_API_KEY = Some("sk-key")
    /\ WORKFLOW_ID \in WorkflowIds
    /\ pc = "idle"
    /\ cookieHeader = Null
    /\ InitRequest

\* lines 74-76 as they would be if sessionCookie were declared at module level:
\* the assignment of one invocation shows in every running one
AssignResolvedShared(invs, r, drawn, result) ==
    [q \in DOMAIN invs |->
        IF q = r
        THEN [invs[q] EXCEPT !.drawn = drawn,
                             !.userId = Some(result.userId),
                             !.sessionCookie = result.sessionCookie]
        ELSE IF invs[q].pc = "idle" THEN invs[q]
        ELSE [invs[q] EXCEPT !.sessionCookie = result.sessionCookie]]

\* lines 74-76: userId and sessionCookie are locals of the invocation r
AssignResolved(invs, r, drawn, result) ==
    [invs EXCEPT ![r].drawn = drawn,
                 ![r].userId = Some(result.userId),
                 ![r].sessionCookie = result.sessionCookie]

\* a request reaches the endpoint and starts an invocation
Arrive(r) ==
    /\ inflight[r].pc = "idle"
    /\ \E h \in ClientHeaders, b \in ClientBodies :
          inflight' = [inflight EXCEPT ![r] =
                          [IdleInvocation EXCEPT !.pc = "received",
                                                 !.cookieHeader = h,
                                                 !.body = b]]
    /\ UNCHANGED <<env, pc, req, userId, sessionCookie, upstream, response, browser>>

\* POST of invocation r, lines 26-132 (OPENAI_API_KEY is set)
POSTBeforeFetch(r) ==
    /\ inflight[r].pc = "received"
    /\ OPENAI_API_KEY # Null
    /\ \E uuid \in UUIDDraws, rnd \in MathRandomDraws :
          LET me       == inflight[r]
              result   == resolveUserId(me.cookieHeader, uuid, rnd)
              drawn    == IF result.sessionCookie = Null THEN Null
                          ELSE Some(result.userId)
              resolved == AssignResolved(inflight, r, drawn, result)
              resolvedWorkflowId == ResolvedWorkflowId(me.body)
          IN  inflight' =
                IF resolvedWorkflowId = ""
                THEN [resolved EXCEPT
                        ![r].response = Some(buildJsonResponse(
                             "Missing workflow id", 400, resolved[r].sessionCookie)),
                        ![r].pc = "done"]
                ELSE [resolved EXCEPT
                        ![r].upstream = Append(me.upstream,
                             [workflow |-> resolvedWorkflowId,
                              user |-> resolved[r].userId[1], answer |-> Null]),
                        ![r].pc = "fetching"]
    /\ UNCHANGED <<env, pc, req, userId, sessionCookie, upstream, response, browser>>

\* POST of invocation r, lines 134-186
POSTSettled(r) ==
    /\ inflight[r].pc = "fetching"
    /\ \E outcome \in UpstreamOutcomes :
          LET me    == inflight[r]
              built == IF outcome = 0 THEN Threw
                       ELSE IF outcome \in 200..299
                       THEN buildJsonResponse("client_secret", 200, me.sessionCookie)
                       ELSE buildJsonResponse("upstream error", outcome, me.sessionCookie)
          IN  inflight' = [inflight EXCEPT
                  ![r].response = Some(IF built.threw
                                       THEN CatchBlock(me.sessionCookie) ELSE built),
                  ![r].upstream = [me.upstream EXCEPT
                                       ![Len(me.upstream)].answer = Some(outcome)],
                  ![r].pc = "done"]
    /\ UNCHANGED <<env, pc, req, userId, sessionCookie, upstream, response, browser>>

\* the response of invocation r is sent and the invocation ends
Return(r) ==
    /\ inflight[r].pc = "done"
    /\ inflight' = [inflight EXCEPT ![r] = IdleInvocation]
    /\ UNCHANGED <<env, pc, req, userId, sessionCookie, upstream, response, browser>>

NextConcurrent ==
    \E r \in Invocations :
        Arrive(r) \/ POSTBeforeFetch(r) \/ POSTSettled(r) \/ Return(r)

SpecConcurrent == InitConcurrent /\ [][NextConcurrent]_vars

-----------------------------------------------------------------------------
(* Vocabulary of the properties: a Cookie header read as text, without the  *)
(* parser                                                                   *)

HeaderText == IF cookieHeader = Null THEN <<>> ELSE cookieHeader[1]

Segments == Split(HeaderText, ";")

HasEq(seg) == IndexOf(seg, "=", 1) > 0

\* the text before the first "=" of a segment, white space trimmed
NameOf(seg) == Trim(SubSeq(seg, 1, IndexOf(seg, "=", 1) - 1))

\* the text after the first "=" of a segment, white space trimmed
ValueOf(seg) == Trim(SubSeq(seg, IndexOf(seg, "=", 1) + 1, Len(seg)))

\* the positions of the pairs named chatkit_session_id
NamedPairs ==
    { i \in 1..Len(Segments) :
        HasEq(Segments[i]) /\ NameOf(Segments[i]) = SESSION_COOKIE_NAME }

FirstNamedPair == CHOOSE i \in NamedPairs : \A j \in NamedPairs : i <= j

\* the session cookie name stands in a segment without "=", and no pair has it
NameWithoutEq ==
    /\ NamedPairs = {}
    /\ \E i \in 1..Len(Segments) :
          ~HasEq(Segments[i]) /\ Trim(Segments[i]) = SESSION_COOKIE_NAME

\* the identifiers the two generators can produce
GeneratedIds == RandomUUIDs \cup { Slice2(r) : r \in MathRandomToString36 }

\* the attributes of a Set-Cookie directive
Attributes(directive) ==
    LET parts == Split(directive, ";")
    IN  { Trim(parts[i]) : i \in 1..Len(parts) }

Returned == pc = "returned"

-----------------------------------------------------------------------------
(* Properties of the resolver, under SpecResolver *)

\* C1 as stated: whenever the Cookie header contains a pair named
\* chatkit_session_id with a non-empty value v, resolveUserId returns userId = v
\* and sessionCookie = null.
C1_AnyNamedPairReused ==
    Returned =>
        \A i \in NamedPairs :
            ValueOf(Segments[i]) # <<>> =>
                /\ userId = Some(ValueOf(Segments[i]))
                /\ sessionCookie = Null

\* C1 amended: whenever the first pair named chatkit_session_id of the Cookie
\* header has a non-empty value v (white space trimmed), resolveUserId returns
\* userId = v and sessionCookie = null.
C1_FirstNamedPairReused ==
    (Returned /\ NamedPairs # {}) =>
        LET v == ValueOf(Segments[FirstNamedPair])
        IN  v # <<>> => userId = Some(v) /\ sessionCookie = Null

\* C1 witness: a header with two pairs of that name, the first one reused
C1_Witness ==
    /\ Returned
    /\ Cardinality(NamedPairs) = 2
    /\ ValueOf(Segments[FirstNamedPair]) # <<>>
    /\ userId = Some(ValueOf(Segments[FirstNamedPair]))
    /\ sessionCookie = Null

\* C2 as stated: with the Cookie header absent or empty, resolveUserId returns a
\* non-empty generated userId and a sessionCookie that is not null and contains
\* Path=/, HttpOnly, SameSite=Lax and Max-Age=2592000, on both generator paths.
C2_NoCookieGenerates ==
    (Returned /\ (cookieHeader = Null \/ cookieHeader = Some(<<>>))) =>
        /\ userId # Null
        /\ userId[1] # <<>>
        /\ userId[1] \in GeneratedIds
        /\ sessionCookie # Null
        /\ { <<"Path", "=", "/">>, <<"HttpOnly">>, <<"SameSite", "=", "Lax">>,
             <<"Max-Age", "=", "2592000">> } \subseteq Attributes(sessionCookie[1])

\* C3 as stated: whenever the parser finds a pair named chatkit_session_id, the
\* resolver returns that pair's value as the identifier and no new cookie, for
\* every value of the pair, the empty one included.
C3_MatchedValueAlwaysReturned ==
    (Returned /\ NamedPairs # {}) =>
        /\ userId = Some(ValueOf(Segments[FirstNamedPair]))
        /\ sessionCookie = Null

\* C3 amended: whenever the parser finds a pair named chatkit_session_id, and the
\* text after the pair's first "=" is not empty once white space around it is
\* trimmed, the resolver returns that trimmed text otherwise unmodified (later
\* "=" kept, percent-escapes not decoded) and no new cookie; when it is empty the
\* resolver generates an identifier and a new cookie instead.
C3_MatchedValueReturnedUnlessEmpty ==
    (Returned /\ NamedPairs # {}) =>
        LET seg == Segments[FirstNamedPair]
            raw == SubSeq(seg, IndexOf(seg, "=", 1) + 1, Len(seg))
        IN  IF \E k \in 1..Len(raw) : raw[k] \notin WhiteSpace
            THEN /\ sessionCookie = Null
                 /\ userId # Null
                 /\ \E a, b \in 0..Len(raw) :
                       /\ raw = [k \in 1..a |-> " "] \o userId[1] \o [k \in 1..b |-> " "]
                       /\ userId[1][1] # " "
                       /\ userId[1][Len(userId[1])] # " "
            ELSE /\ sessionCookie # Null
                 /\ userId # Null
                 /\ userId[1] \in GeneratedIds

\* C3 witness: a matched value holding a percent-escape and a later "="
C3_Witness ==
    /\ Returned
    /\ NamedPairs # {}
    /\ userId = Some(<<"%3B", "=">>)
    /\ sessionCookie = Null

\* C5: a minted identifier comes with exactly the directive
\* chatkit_session_id=<encodeURIComponent(userId)>; Path=/; Max-Age=2592000;
\* HttpOnly; SameSite=Lax, optionally followed by "; Secure".
C5_CookieWireFormat ==
    (Returned /\ sessionCookie # Null) =>
        LET base == <<"chatkit_session_id", "=">> \o encodeURIComponent(userId[1])
                    \o <<";", " ", "Path", "=", "/",
                         ";", " ", "Max-Age", "=", "2592000",
                         ";", " ", "HttpOnly",
                         ";", " ", "SameSite", "=", "Lax">>
        IN  sessionCookie[1] \in { base, base \o <<";", " ", "Secure">> }

\* C5 witness: a minted identifier whose directive starts with its own pair
C5_Witness ==
    /\ Returned
    /\ sessionCookie # Null
    /\ userId = Some(<<"4", "-", "a">>)
    /\ SubSeq(sessionCookie[1], 1, 5) = <<"chatkit_session_id", "=", "4", "-", "a">>

\* C6: an emitted directive has the Secure attribute exactly when NODE_ENV is
\* "production".
C6_SecureIffProduction ==
    (Returned /\ sessionCookie # Null) =>
        (<<"Secure">> \in Attributes(sessionCookie[1])
            <=> NODE_ENV = Some("production"))

\* C6 witness: a directive emitted in production, with Secure
C6_Witness ==
    /\ Returned
    /\ sessionCookie # Null
    /\ NODE_ENV = Some("production")
    /\ <<"Secure">> \in Attributes(sessionCookie[1])

\* C7: when exactly one pair of the header is named chatkit_session_id and its
\* value v is not empty, the resolver returns userId = v wherever the pair
\* stands, skipping the segments that are empty or have no "=".
C7_OnlyNamedPairFoundAnywhere ==
    (Returned /\ Cardinality(NamedPairs) = 1) =>
        LET i == CHOOSE k \in NamedPairs : TRUE
        IN  ValueOf(Segments[i]) # <<>> =>
                /\ userId = Some(ValueOf(Segments[i]))
                /\ sessionCookie = Null

\* C7 witness: the pair found behind an empty segment and one without "="
C7_Witness ==
    /\ Returned
    /\ Cardinality(NamedPairs) = 1
    /\ Len(Segments) = 3
    /\ Segments[1] = <<>>
    /\ Segments[2] # <<>> /\ ~HasEq(Segments[2])
    /\ 3 \in NamedPairs
    /\ userId = Some(ValueOf(Segments[3]))
    /\ userId # Some(<<>>)

\* C8 as stated: when the session cookie name stands in the header without "=",
\* the resolver returns neither the name nor the empty string but a freshly
\* generated userId, with a sessionCookie that is not null.
C8_NameWithoutEqGenerates ==
    (Returned /\ NameWithoutEq) =>
        /\ userId # Some(SESSION_COOKIE_NAME)
        /\ userId # Some(<<>>)
        /\ userId # Null
        /\ userId[1] \in GeneratedIds
        /\ sessionCookie # Null

\* C10: resolveUserId returns for every header, and what it returns is either
\* the value of the inbound cookie with sessionCookie = null, or a generated
\* identifier with a sessionCookie that is not null.
C10_TwoShapes ==
    Returned =>
        LET fromCookie ==
                NamedPairs # {} /\ ValueOf(Segments[FirstNamedPair]) # <<>>
        IN  /\ userId # Null
            /\ sessionCookie = Null <=> fromCookie
            /\ fromCookie => userId = Some(ValueOf(Segments[FirstNamedPair]))
            /\ ~fromCookie =>
                  /\ userId[1] \in GeneratedIds
                  /\ sessionCookie = Some(serializeSessionCookie(userId[1]))

\* C10 witness: a header of malformed segments only, answered by generation
C10_Witness ==
    /\ Returned
    /\ cookieHeader = Some(<<"=", ";", ";", "chatkit_session_id", " ", "%3B">>)
    /\ userId # Null
    /\ userId[1] \in GeneratedIds
    /\ sessionCookie # Null

-----------------------------------------------------------------------------
(* Properties of the endpoint and the browser, under Spec *)

\* C4 as stated: once the browser has stored the pair of an emitted directive
\* and sends it back, every later request resolves to the userId minted with
\* that directive and no further cookie is emitted.
C4_StablePerBrowser ==
    (pc \in {"fetching", "done"} /\ userId # Null /\ jar # Null) =>
        /\ userId = minted
        /\ sessionCookie = Null
        /\ (pc = "done" => response[1].setCookie = Null)

\* C9: every response built after resolveUserId returned carries as Set-Cookie
\* exactly the sessionCookie that is not null, whichever of the four returns
\* built it, and none when the request presented a session cookie.
C9_SetCookieOnEveryExit ==
    (pc = "done" /\ userId # Null) =>
        /\ response[1].setCookie = sessionCookie
        /\ response[1].payload \in
              {"Missing workflow id", "upstream error", "client_secret",
               "Unexpected error"}
        /\ (NamedPairs # {} /\ ValueOf(Segments[FirstNamedPair]) # <<>>)
              => response[1].setCookie = Null

\* C9 witness: the fetch failed after a new identity was minted, and the 500 of
\* the catch block carries the new cookie
C9_Witness ==
    /\ pc = "done"
    /\ response[1].payload = "Unexpected error"
    /\ response[1].status = 500
    /\ sessionCookie # Null
    /\ response[1].setCookie = sessionCookie

-----------------------------------------------------------------------------
(* Properties of concurrent invocations, under SpecConcurrent *)

\* the value of the first pair named chatkit_session_id of a header, white
\* space trimmed; empty when there is no such pair
SessionIdIn(header) ==
    LET segs  == Split(IF header = Null THEN <<>> ELSE header[1], ";")
        named == { i \in 1..Len(segs) :
                     HasEq(segs[i]) /\ NameOf(segs[i]) = SESSION_COOKIE_NAME }
    IN  IF named = {} THEN <<>>
        ELSE ValueOf(segs[CHOOSE i \in named : \A j \in named : i <= j])

\* the directive that goes with a minted identifier in this environment
DirectiveFor(id) ==
    <<"chatkit_session_id", "=">> \o id
        \o <<";", " ", "Path", "=", "/", ";", " ", "Max-Age", "=", "2592000",
             ";", " ", "HttpOnly", ";", " ", "SameSite", "=", "Lax">>
        \o (IF NODE_ENV = Some("production") THEN <<";", " ", "Secure">> ELSE <<>>)

Resolved(r) == inflight[r].pc \in {"fetching", "done"}

\* C11: under every interleaving, what an invocation resolved is decided by its
\* own Cookie header and its own generator draw: a request with a session
\* cookie has that cookie's value and no new cookie, any other request has the
\* identifier it drew and the directive for it, and the upstream call and the
\* response carry the invocation's own values.
C11_InvocationsIndependent ==
    \A r \in Invocations :
        Resolved(r) =>
            LET me == inflight[r]
                id == SessionIdIn(me.cookieHeader)
            IN  /\ id # <<>> =>
                      /\ me.userId = Some(id)
                      /\ me.sessionCookie = Null
                /\ id = <<>> =>
                      /\ me.drawn # Null
                      /\ me.userId = me.drawn
                      /\ me.sessionCookie = Some(DirectiveFor(me.drawn[1]))
                /\ \A k \in 1..Len(me.upstream) : me.upstream[k].user = me.userId[1]
                /\ me.pc = "done" => me.response[1].setCookie = me.sessionCookie

\* C11 witness: two invocations in flight at once, one with a session cookie
\* and one that minted an identifier, each with its own result
C11_Witness ==
    \E r, q \in Invocations :
        /\ r # q
        /\ Resolved(r) /\ Resolved(q)
        /\ inflight[r].userId = Some(<<"a">>)
        /\ inflight[r].sessionCookie = Null
        /\ inflight[q].cookieHeader = Null
        /\ inflight[q].sessionCookie # Null
        /\ inflight[q].userId # inflight[r].userId

-----------------------------------------------------------------------------
(* The upstream call of the endpoint, under Spec *)

\* C12 as stated: the session broker is called at most once per request and only
\* with OPENAI_API_KEY present and a workflow id resolved (500 and 400 without a
\* call otherwise), with the userId of resolveUserId as `user`; a non-ok
\* upstream status is the status of the response and an ok one yields 200.
C12_UpstreamCallAndStatus ==
    /\ Len(upstream) <= 1
    /\ upstream # <<>> =>
          /\ OPENAI_API_KEY # Null
          /\ ResolvedWorkflowId(body) # ""
          /\ upstream[1].workflow = ResolvedWorkflowId(body)
          /\ userId # Null
          /\ upstream[1].user = userId[1]
    /\ pc = "done" =>
          /\ OPENAI_API_KEY = Null =>
                upstream = <<>> /\ response[1].status = 500
          /\ (OPENAI_API_KEY # Null /\ ResolvedWorkflowId(body) = "") =>
                upstream = <<>> /\ response[1].status = 400
          /\ (upstream # <<>> /\ upstream[1].answer # Null) =>
                LET status == upstream[1].answer[1]
                IN  /\ status \in 200..299 => response[1].status = 200
                    /\ (status # 0 /\ status \notin 200..299) =>
                          response[1].status = status

=============================================================================
